---- MODULE Spec2Model ----
(***************************************************************************)
(* Model of the crypto_agent paper-trading engine:                         *)
(*   - portfolio.py  Portfolio.buy / Portfolio.sell      (PortfolioSpec)   *)
(*   - backtest.py   add_indicators / run_backtest walk  (BacktestSpec)    *)
(*   - backtest.py main and main.py run_once per-instrument loops (RunSpec)*)
(*   - strategy.py   check_ma_crossover / generate_signal  (EngineSpec)    *)
(*   - backtest.py calc_rsi, market_data.py calculate_rsi (IndicatorSpec)  *)
(*   - backtest.py   add_indicators from closes + the walk (PipelineSpec)  *)
(*                                                                         *)
(* Python floats are modelled as exact rationals <<n, d>> (d > 0, lowest   *)
(* terms) and NaN as <<0, 0>>.                                             *)
(* datetime.now() stamps are not modelled.                                 *)
(***************************************************************************)
EXTENDS Integers, Sequences, FiniteSets, TLC

VARIABLES
    \* ---- portfolio.py: Portfolio object -------------------------------
    initial_krw,     \* constructor argument of Portfolio.__init__
    cash_krw,        \* Portfolio.cash_krw
    positions,       \* Portfolio.positions: function market -> Position
    trade_history,   \* Portfolio.trade_history
    call,            \* the last buy/sell invocation and its return value
    nOps,            \* number of buy/sell calls made so far
    \* ---- backtest.py: run_backtest ------------------------------------
    capital,         \* the capital argument of run_backtest
    raw,             \* the fetched bars with their rolling rsi / ma5 / ma20 values
    df,              \* the frame the walk iterates (flags added, NaN rows dropped)
    row_i,           \* position in df of the row the loop visits next (1-based)
    cash,            \* local cash
    position,        \* local position (coin quantity held)
    entry_price,     \* local entry_price
    entry_date,      \* local entry_date
    trades,          \* local trades
    equity,          \* local equity
    result,          \* the returned dict
    pc,              \* where run_backtest stands: start, loop, done, idle
    \* ---- backtest.py main / main.py run_once: the loops over instruments
    run_mode,        \* which entry point runs: "backtest" or "live"
    fetched,         \* what market-data retrieval gives for each instrument
    run_k,           \* position in TRADING_PAIRS (then in signals) of the next item
    results,         \* backtest.main: results
    signals,         \* run_once: signals
    current_prices,  \* run_once: current_prices
    report,          \* print_report's combined totals
    trade_amount,    \* config.TRADE_AMOUNT_KRW of the run
    run_pc,          \* fetch, trade, report, done, raised, idle
    \* ---- strategy.py generate_signal and the RSI functions, applied to inputs
    live_df,         \* the frame handed to generate_signal
    signal_info,     \* the dict generate_signal returned
    series,          \* the close series handed to calc_rsi / calculate_rsi
    period,          \* their period argument
    rsi_out          \* the two RSI series they returned

pfVars == <<initial_krw, cash_krw, positions, trade_history, call, nOps>>

btVars == <<capital, raw, df, row_i, cash, position, entry_price, entry_date, trades, equity,
            result, pc>>

runVars == <<run_mode, fetched, run_k, results, signals, current_prices, report,
             trade_amount, run_pc>>

fnVars == <<live_df, signal_info, series, period, rsi_out>>

vars == <<pfVars, btVars, runVars, fnVars>>

(***************************************************************************)
(* Exact rational arithmetic standing for float arithmetic.                *)
(***************************************************************************)
Abs(x) == IF x < 0 THEN -x ELSE x

RECURSIVE GCD(_, _)
GCD(a, b) == IF b = 0 THEN a ELSE GCD(b, a % b)

Rat(n, d) ==
    LET g == GCD(Abs(n), Abs(d))
        s == IF d < 0 THEN -1 ELSE 1
    IN  <<(s * n) \div g, (s * d) \div g>>

R(n) == <<n, 1>>

RAdd(a, b) ==
    LET g == GCD(a[2], b[2])
    IN  Rat(a[1] * (b[2] \div g) + b[1] * (a[2] \div g), (a[2] \div g) * b[2])

RNeg(a) == <<-a[1], a[2]>>

RSub(a, b) == RAdd(a, RNeg(b))

RMul(a, b) ==
    LET g1 == GCD(Abs(a[1]), b[2])
        g2 == GCD(Abs(b[1]), a[2])
    IN  Rat((a[1] \div g1) * (b[1] \div g2), (a[2] \div g2) * (b[2] \div g1))

\* b # 0: a float division by zero raises / yields inf and is kept out of the inputs
RDiv(a, b) == RMul(a, Rat(b[2], b[1]))

RLt(a, b) == a[1] * b[2] < b[1] * a[2]

RLe(a, b) == a[1] * b[2] <= b[1] * a[2]

Zero == R(0)

(***************************************************************************)
(* portfolio.py                                                            *)
(***************************************************************************)
\* Bound on the number of buy/sell calls of one run.
MaxOps == 4

Markets == {"KRW-BTC", "KRW-ETH"}

\* Inputs: the initial cash, the requested amounts and the prices.
InitialCash == {4000, 10000}

Amounts == {2000, 4000}

Prices == {1, 2}

\* Upbit fee 0.05% (the literal 0.0005 of buy and sell)
FeeRate == Rat(5, 10000)

\* faulty variant: the comparison of the guard reversed
BuyRefused_Reversed(avail, amount_krw) == RLt(amount_krw, avail)

\* Portfolio.buy, line 44: the insufficient-funds guard
BuyRefused(avail, amount_krw) == RLt(avail, amount_krw)

\* Portfolio.buy, line 49
BuyFee(amount_krw) == RMul(amount_krw, FeeRate)

\* faulty variant: the new quantity replaces the held quantity instead of adding to it
AveragedPosition_QtyReplaced(pos, amount_krw, quantity) ==
    LET total_krw == RAdd(pos.amount_krw, amount_krw)
    IN  [pos EXCEPT !.entry_price = RDiv(total_krw, quantity),
                    !.quantity    = quantity,
                    !.amount_krw  = total_krw]

\* faulty variant: the entry price is re-based on the price of the new buy
AveragedPosition_Rebased(pos, amount_krw, quantity) ==
    [pos EXCEPT !.entry_price = RDiv(amount_krw, quantity),
                !.quantity    = RAdd(pos.quantity, quantity),
                !.amount_krw  = RAdd(pos.amount_krw, amount_krw)]

\* Portfolio.buy, lines 53-58: averaging into an existing position
AveragedPosition(pos, amount_krw, quantity) ==
    LET total_qty == RAdd(pos.quantity, quantity)
        total_krw == RAdd(pos.amount_krw, amount_krw)
    IN  [pos EXCEPT !.entry_price = RDiv(total_krw, total_qty),
                    !.quantity    = total_qty,
                    !.amount_krw  = total_krw]

\* faulty variant: the entry fee is booked into the invested amount
NewPosition_FeeInvested(market, amount_krw, current_price, quantity) ==
    [market      |-> market,
     amount_krw  |-> RAdd(amount_krw, BuyFee(amount_krw)),
     entry_price |-> current_price,
     quantity    |-> quantity]

\* Portfolio.buy, lines 60-65: a new Position
NewPosition(market, amount_krw, current_price, quantity) ==
    [market      |-> market,
     amount_krw  |-> amount_krw,
     entry_price |-> current_price,
     quantity    |-> quantity]

\* positions[market] = pos, adding the key when it is not there
DictSet(d, k, v) == [x \in DOMAIN d \cup {k} |-> IF x = k THEN v ELSE d[x]]

\* faulty variant: the position is not deleted
DictDel_Kept(d, k) == d

\* del positions[market]
DictDel(d, k) == [x \in DOMAIN d \ {k} |-> d[x]]

\* Portfolio.buy(market, amount_krw, current_price): lines 43-77
BuyCall(market, amount_krw, current_price) ==
    LET quantity      == RDiv(amount_krw, current_price)
        fee           == BuyFee(amount_krw)
    IN  /\ IF BuyRefused(cash_krw, amount_krw)
           THEN /\ call' = [op |-> "buy", market |-> market, amount_krw |-> amount_krw,
                            price |-> current_price, ret |-> FALSE]
                /\ UNCHANGED <<cash_krw, positions, trade_history>>
           ELSE /\ positions' =
                       IF market \in DOMAIN positions
                       THEN DictSet(positions, market,
                                AveragedPosition(positions[market], amount_krw, quantity))
                       ELSE DictSet(positions, market,
                                NewPosition(market, amount_krw, current_price, quantity))
                /\ cash_krw' = RSub(cash_krw, RAdd(amount_krw, fee))
                /\ trade_history' = Append(trade_history,
                       [type |-> "BUY", market |-> market, price |-> current_price,
                        amount_krw |-> amount_krw, quantity |-> quantity])
                /\ call' = [op |-> "buy", market |-> market, amount_krw |-> amount_krw,
                            price |-> current_price, ret |-> TRUE]
        /\ UNCHANGED initial_krw

\* a caller invokes Portfolio.buy
Buy(market, amt, prc) ==
    /\ nOps < MaxOps
    /\ nOps' = nOps + 1
    /\ BuyCall(market, R(amt), R(prc))
    /\ UNCHANGED <<btVars, runVars, fnVars>>

\* Portfolio.sell, lines 86-89
SellProceeds(pos, current_price) == RMul(pos.quantity, current_price)

SellFee(proceeds) == RMul(proceeds, FeeRate)

\* faulty variant: the exit fee is not deducted
SellNet_Gross(pos, current_price) == SellProceeds(pos, current_price)

SellNet(pos, current_price) ==
    RSub(SellProceeds(pos, current_price), SellFee(SellProceeds(pos, current_price)))

SellProfit(pos, current_price) == RSub(SellNet(pos, current_price), pos.amount_krw)

\* Portfolio.sell(market, current_price): lines 80-104
SellCall(market, current_price) ==
        /\ IF market \notin DOMAIN positions
           THEN /\ call' = [op |-> "sell", market |-> market, price |-> current_price,
                            ret |-> FALSE]
                /\ UNCHANGED <<cash_krw, positions, trade_history>>
           ELSE LET pos == positions[market]
                IN  /\ cash_krw' = RAdd(cash_krw, SellNet(pos, current_price))
                    /\ positions' = DictDel(positions, market)
                    /\ trade_history' = Append(trade_history,
                           [type |-> "SELL", market |-> market, price |-> current_price,
                            proceeds_krw |-> SellNet(pos, current_price),
                            profit_krw |-> SellProfit(pos, current_price)])
                    /\ call' = [op |-> "sell", market |-> market, price |-> current_price,
                                ret |-> TRUE]
        /\ UNCHANGED initial_krw

\* a caller invokes Portfolio.sell
Sell(market, prc) ==
    /\ nOps < MaxOps
    /\ nOps' = nOps + 1
    /\ SellCall(market, R(prc))
    /\ UNCHANGED <<btVars, runVars, fnVars>>

\* entry_date = None (dates are 1, 2, ...)
NoDate == 0

\* run_backtest is not running
BacktestIdle ==
    /\ capital = Zero
    /\ raw = <<>>
    /\ df = <<>>
    /\ row_i = 0
    /\ cash = Zero
    /\ position = Zero
    /\ entry_price = Zero
    /\ entry_date = NoDate
    /\ trades = <<>>
    /\ equity = <<>>
    /\ result = [kind |-> "none"]
    /\ pc = "idle"

\* neither backtest.main nor run_once is running
RunIdle ==
    /\ run_mode = "none"
    /\ fetched = <<>>
    /\ run_k = 0
    /\ results = <<>>
    /\ signals = <<>>
    /\ current_prices = <<>>
    /\ report = [kind |-> "none"]
    /\ trade_amount = Zero
    /\ run_pc = "idle"

\* generate_signal and the RSI functions are not applied
FnIdle ==
    /\ live_df = <<>>
    /\ signal_info = [kind |-> "idle"]
    /\ series = <<>>
    /\ period = 0
    /\ rsi_out = [kind |-> "idle"]

\* Portfolio.__init__(initial_krw)
PortfolioInit ==
    /\ initial_krw \in {R(c) : c \in InitialCash}
    /\ cash_krw = initial_krw
    /\ positions = <<>>
    /\ trade_history = <<>>
    /\ call = [op |-> "init"]
    /\ nOps = 0
    /\ BacktestIdle
    /\ RunIdle
    /\ FnIdle

PortfolioNext ==
    \/ \E m \in Markets, a \in Amounts, p \in Prices : Buy(m, a, p)
    \/ \E m \in Markets, p \in Prices : Sell(m, p)

PortfolioSpec == PortfolioInit /\ [][PortfolioNext]_vars

(***************************************************************************)
(* backtest.py: add_indicators' cross flags and run_backtest.               *)
(*                                                                         *)
(* A fetched bar carries its close and the values the rolling computations *)
(* of calc_rsi / rolling(MA_SHORT) / rolling(MA_LONG) give at that bar;     *)
(* they are inputs here, each possibly NaN.                                *)
(***************************************************************************)
\* Bound on the number of fetched bars.
MaxBars == 3

RSI_OVERSOLD == 30

RSI_OVERBOUGHT == 70

INITIAL_CAPITAL == 1000000

\* NaN: a float that is no number, kept apart from every rational <<n, d>>, d > 0
NaN == <<0, 0>>

\* Inputs: closes, rsi values around both thresholds (70 is neither oversold
\* nor overbought), and moving-average pairs below / above each other
Closes == {1, 2}

RsiValues == {R(29), R(70), R(71)}

MaPairs == {<<R(1), R(2)>>, <<R(2), R(1)>>}

\* bars with every indicator defined
DefinedBars ==
    {[close |-> R(c), rsi |-> r, ma5 |-> m[1], ma20 |-> m[2]] :
        c \in Closes, r \in RsiValues, m \in MaPairs}

\* bars lacking rsi (zero average loss, or too few bars) or the moving
\* averages (window not full); their close is never read
UndefinedBars ==
    {[close |-> R(1), rsi |-> NaN, ma5 |-> m[1], ma20 |-> m[2]] : m \in MaPairs}
    \cup {[close |-> R(1), rsi |-> R(29), ma5 |-> NaN, ma20 |-> NaN]}

BarValues == DefinedBars \cup UndefinedBars

\* float comparisons: every comparison with NaN is False
FLt(a, b) == a # NaN /\ b # NaN /\ RLt(a, b)

FLe(a, b) == a # NaN /\ b # NaN /\ RLe(a, b)

FGt(a, b) == FLt(b, a)

FGe(a, b) == FLe(b, a)

\* Series.shift(1) of column col of frame f, at row k
Shift1(f, col, k) == IF k = 1 THEN NaN ELSE f[k - 1][col]

\* add_indicators, line 70
GoldenFlag(f, k) ==
    /\ FLe(Shift1(f, "ma5", k), Shift1(f, "ma20", k))
    /\ FGt(f[k].ma5, f[k].ma20)

\* faulty variant: the dead cross taken as a level check on the current bar alone
DeadFlag_Level(f, k) == FLt(f[k].ma5, f[k].ma20)

\* add_indicators, line 71
DeadFlag(f, k) ==
    /\ FGe(Shift1(f, "ma5", k), Shift1(f, "ma20", k))
    /\ FLt(f[k].ma5, f[k].ma20)

\* add_indicators, lines 70-71, on a frame that holds rsi, ma5, ma20; the
\* date of a bar is its place in the fetched sequence (ascending, line 48)
AddCrossFlags(f) ==
    [k \in 1..Len(f) |->
        [date |-> k, close |-> f[k].close, rsi |-> f[k].rsi,
         ma5 |-> f[k].ma5, ma20 |-> f[k].ma20,
         golden |-> GoldenFlag(f, k), dead |-> DeadFlag(f, k)]]

\* faulty variant: no row is dropped
DropNa_None(f) == f

\* line 86: dropna(subset=["rsi", "ma5", "ma20"]).reset_index(drop=True)
DropNa(f) == SelectSeq(f, LAMBDA r : r.rsi # NaN /\ r.ma5 # NaN /\ r.ma20 # NaN)

\* faulty variant: the dead cross is not named when the rsi exit holds too
ExitReason_RsiFirst(sell_rsi, sell_dead) ==
    IF sell_rsi THEN <<"RSI overbought">>
    ELSE IF sell_dead THEN <<"dead cross">> ELSE <<>>

\* lines 116-118: the reason, as the concatenation of its pieces
ExitReason(sell_rsi, sell_dead) ==
    (IF sell_rsi THEN <<"RSI overbought">> ELSE <<>>)
    \o (IF sell_dead /\ sell_rsi THEN <<" + dead cross">>
        ELSE IF sell_dead THEN <<"dead cross">> ELSE <<>>)

ForcedReason == <<"period-end forced liquidation">>

\* lines 113-127 and 137-148: the trade record of an exit at price close on date
TradeRecordOf(st, close, date, reason) ==
    [entry_date  |-> st.entry_date,
     exit_date   |-> date,
     entry_price |-> st.entry_price,
     exit_price  |-> close,
     pnl_krw     |-> RSub(RMul(st.position, close), RMul(st.position, st.entry_price)),
     pnl_pct     |-> RMul(RDiv(RSub(close, st.entry_price), st.entry_price), R(100)),
     reason      |-> reason]

\* the locals of run_backtest that the loop body reads and writes
Locals ==
    [cash |-> cash, position |-> position, entry_price |-> entry_price,
     entry_date |-> entry_date, trades |-> trades, equity |-> equity]

\* the Trade built from the current locals
TradeRecord(close, date, reason) == TradeRecordOf(Locals, close, date, reason)

BtPrepare ==
    /\ pc = "start"
    /\ IF raw = <<>>
       THEN /\ result' = [kind |-> "empty"]
            /\ pc' = "done"
            /\ UNCHANGED <<df, row_i, cash, position, entry_price, entry_date,
                           trades, equity>>
       ELSE /\ df' = DropNa(AddCrossFlags(raw))
            /\ cash' = capital
            /\ position' = Zero
            /\ entry_price' = Zero
            /\ entry_date' = NoDate
            /\ trades' = <<>>
            /\ equity' = <<>>
            /\ row_i' = 1
            /\ pc' = "loop"
            /\ UNCHANGED result
    /\ UNCHANGED <<capital, raw, pfVars, runVars, fnVars>>

\* the entry test of the walk: position == 0 is tested by BarStep, the rest is
\* "pd.notna(rsi) and rsi < RSI_OVERSOLD"
\* faulty variant: the live rule, which also wants a golden cross on the bar
EntrySignal_NeedsGolden(row) ==
    /\ row.rsi # NaN
    /\ FLt(row.rsi, R(RSI_OVERSOLD))
    /\ row.golden

EntrySignal(row) ==
    /\ row.rsi # NaN
    /\ FLt(row.rsi, R(RSI_OVERSOLD))

\* the exit test: "pd.notna(rsi)" and "sell_rsi or sell_dead"
ExitSignal(row) ==
    /\ row.rsi # NaN
    /\ (FGt(row.rsi, R(RSI_OVERBOUGHT)) \/ row.dead)

\* faulty variant: the entry pays the live ledger's fee of 0.05 %, and a row
\* that entered is tested for the exit as well (if ... if, not if ... elif)
BarStep_FeeAndSameBarExit(st, row) ==
    LET close   == row.close
        enters  == st.position = Zero /\ EntrySignal(row)
        qty     == RDiv(RSub(st.cash, RDiv(st.cash, R(2000))), close)
        mid     == IF enters
                   THEN [st EXCEPT !.position = qty,
                                   !.entry_price = close,
                                   !.entry_date = row.date,
                                   !.cash = Zero]
                   ELSE st
        exits   == RLt(Zero, mid.position) /\ ExitSignal(row)
        sell_rsi  == FGt(row.rsi, R(RSI_OVERBOUGHT))
        exit_val  == RMul(mid.position, close)
        out     == IF exits
                   THEN [mid EXCEPT !.trades = Append(mid.trades,
                                        TradeRecordOf(mid, close, row.date,
                                                      ExitReason(sell_rsi, row.dead))),
                                    !.cash = exit_val,
                                    !.position = Zero]
                   ELSE mid
    IN  [out EXCEPT !.equity = Append(out.equity,
                                      RAdd(out.cash, RMul(out.position, close)))]

\* one pass of the loop body over a row: the locals after it
BarStep(st, row) ==
    LET close == row.close
        rsi   == row.rsi
    IN  IF st.position = Zero /\ EntrySignal(row)
        THEN LET qty == RDiv(st.cash, close)
             IN  [st EXCEPT !.position = qty,
                            !.entry_price = close,
                            !.entry_date = row.date,
                            !.cash = Zero,
                            !.equity = Append(st.equity, RAdd(Zero, RMul(qty, close)))]
        ELSE IF RLt(Zero, st.position) /\ ExitSignal(row)
        THEN LET sell_rsi  == FGt(rsi, R(RSI_OVERBOUGHT))
                 sell_dead == row.dead
                 exit_val  == RMul(st.position, close)
             IN  [st EXCEPT !.trades = Append(st.trades,
                                TradeRecordOf(st, close, row.date,
                                              ExitReason(sell_rsi, sell_dead))),
                            !.cash = exit_val,
                            !.position = Zero,
                            !.equity = Append(st.equity, RAdd(exit_val, RMul(Zero, close)))]
        ELSE [st EXCEPT !.equity = Append(st.equity,
                                          RAdd(st.cash, RMul(st.position, close)))]

\* lines 96-132: one iteration of the walk
BtBar ==
    /\ pc = "loop"
    /\ row_i <= Len(df)
    /\ LET after == BarStep(Locals, df[row_i])
       IN  /\ cash' = after.cash
           /\ position' = after.position
           /\ entry_price' = after.entry_price
           /\ entry_date' = after.entry_date
           /\ trades' = after.trades
           /\ equity' = after.equity
    /\ row_i' = row_i + 1
    /\ UNCHANGED <<capital, raw, df, result, pc, pfVars, runVars, fnVars>>

\* running maximum of the first k values of eq (np.maximum.accumulate)
RECURSIVE Peak(_, _)
Peak(eq, k) ==
    IF k = 1 THEN eq[1]
    ELSE LET q == Peak(eq, k - 1) IN IF RLt(q, eq[k]) THEN eq[k] ELSE q

\* line 163: (eq - peak) / peak * 100; 0/0 is NaN
Drawdown(eq, k) ==
    IF Peak(eq, k) = Zero THEN NaN
    ELSE RMul(RDiv(RSub(eq[k], Peak(eq, k)), Peak(eq, k)), R(100))

\* faulty variant: the drawdown reported as a magnitude, -dd.min()
Mdd_Magnitude(eq) ==
    IF Len(eq) = 0 THEN Zero
    ELSE IF \E k \in 1..Len(eq) : Drawdown(eq, k) = NaN THEN NaN
    ELSE RNeg(CHOOSE d \in {Drawdown(eq, k) : k \in 1..Len(eq)} :
                  \A k \in 1..Len(eq) : RLe(d, Drawdown(eq, k)))

\* lines 161-164: dd.min(), NaN as soon as one drawdown is NaN, 0.0 for no points
Mdd(eq) ==
    IF Len(eq) = 0 THEN Zero
    ELSE IF \E k \in 1..Len(eq) : Drawdown(eq, k) = NaN THEN NaN
    ELSE CHOOSE d \in {Drawdown(eq, k) : k \in 1..Len(eq)} :
             \A k \in 1..Len(eq) : RLe(d, Drawdown(eq, k))

\* lines 152-176: the returned dict
BtResult(final_capital, all_trades) ==
    LET n    == Len(all_trades)
        wins == Len(SelectSeq(all_trades, LAMBDA t : RLt(Zero, t.pnl_pct)))
    IN  [kind         |-> "result",
         market       |-> "KRW-BTC",
         initial      |-> capital,
         final        |-> final_capital,
         total_return |-> RMul(RDiv(RSub(final_capital, capital), capital), R(100)),
         n_trades     |-> n,
         win_rate     |-> IF n # 0 THEN RMul(Rat(wins, n), R(100)) ELSE Zero,
         mdd          |-> Zero,
         trades       |-> all_trades,
         df_len       |-> Len(df)]

\* lines 135-150: the locals after the forced liquidation at the last row of
\* the frame; position is not assigned
\* faulty variant: the liquidation is booked in cash but records no trade
ForceLiquidate_NoTrade(st, last) ==
    LET exit_val == RMul(st.position, last.close)
    IN  [st EXCEPT !.cash = exit_val,
                   !.equity = Append(st.equity, exit_val)]

\* faulty variant: the liquidation is booked at the entry price
ForceLiquidate_AtEntryPrice(st, last) ==
    LET exit_val == RMul(st.position, st.entry_price)
    IN  [st EXCEPT !.trades = Append(st.trades,
                       TradeRecordOf(st, st.entry_price, last.date, ForcedReason)),
                   !.cash = exit_val,
                   !.equity = Append(st.equity, exit_val)]

ForceLiquidate(st, last) ==
    LET exit_val == RMul(st.position, last.close)
    IN  [st EXCEPT !.trades = Append(st.trades,
                       TradeRecordOf(st, last.close, last.date, ForcedReason)),
                   !.cash = exit_val,
                   !.equity = Append(st.equity, exit_val)]

\* line 156: (final_capital - capital) / capital divides Python numbers (no
\* position is ever bought with no cash, so cash is never a numpy value),
\* which raises ZeroDivisionError for a capital of 0
TotalReturnRaises(cap) == cap = Zero

\* lines 134-176: forced liquidation of an open position, metrics, return
BtFinish ==
    /\ pc = "loop"
    /\ row_i > Len(df)
    /\ LET after == IF RLt(Zero, position)
                    THEN ForceLiquidate(Locals, df[Len(df)])
                    ELSE Locals
       IN  /\ trades' = after.trades
           /\ cash' = after.cash
           /\ equity' = after.equity
    /\ IF TotalReturnRaises(capital)
       THEN /\ result' = [kind |-> "raised"]
            /\ pc' = "raised"
       ELSE /\ result' = [BtResult(cash', trades') EXCEPT !.mdd = Mdd(equity')]
            /\ pc' = "done"
    /\ UNCHANGED <<capital, raw, df, row_i, position, entry_price, entry_date,
                   pfVars, runVars, fnVars>>

\* the Portfolio object is not part of a backtest
PortfolioIdle ==
    /\ initial_krw = Zero
    /\ cash_krw = Zero
    /\ positions = <<>>
    /\ trade_history = <<>>
    /\ call = [op |-> "init"]
    /\ nOps = 0

\* run_backtest(market) is called; fetch_candles returns 0..MaxBars bars
BacktestInit ==
    /\ capital = R(INITIAL_CAPITAL)
    /\ \E n \in 0..MaxBars : raw \in [1..n -> BarValues]
    /\ df = <<>>
    /\ row_i = 0
    /\ cash = Zero
    /\ position = Zero
    /\ entry_price = Zero
    /\ entry_date = NoDate
    /\ trades = <<>>
    /\ equity = <<>>
    /\ result = [kind |-> "none"]
    /\ pc = "start"
    /\ PortfolioIdle
    /\ RunIdle
    /\ FnIdle

BacktestNext == BtPrepare \/ BtBar \/ BtFinish

BacktestSpec == BacktestInit /\ [][BacktestNext]_vars

\* Inputs: the capital argument, none or the default
Capitals == {0, INITIAL_CAPITAL}

\* run_backtest(market, capital) is called with any of the capitals
CapitalInit ==
    /\ capital \in {R(c) : c \in Capitals}
    /\ \E n \in 0..MaxBars : raw \in [1..n -> BarValues]
    /\ df = <<>>
    /\ row_i = 0
    /\ cash = Zero
    /\ position = Zero
    /\ entry_price = Zero
    /\ entry_date = NoDate
    /\ trades = <<>>
    /\ equity = <<>>
    /\ result = [kind |-> "none"]
    /\ pc = "start"
    /\ PortfolioIdle
    /\ RunIdle
    /\ FnIdle

CapitalSpec == CapitalInit /\ [][BacktestNext]_vars

(***************************************************************************)
(* The loops over the instruments: backtest.py main / print_report and     *)
(* main.py run_once.  What retrieval gives for an instrument is an input:  *)
(*   failure  the request raised (network error, HTTP error status)        *)
(*   empty    the exchange answered with an empty list                     *)
(*   single   one bar                                                      *)
(*   partial  fewer bars than requested, at least two                      *)
(*   full     the 200 bars requested                                       *)
(***************************************************************************)
TRADING_PAIRS == <<"KRW-BTC", "KRW-ETH", "KRW-XRP">>

Outcomes == {"failure", "empty", "single", "partial", "full"}

\* Inputs: what a backtest over fetched bars may end with, the signal and
\* close of a live instrument, and the configured trade size
FinalCapitals == {500000, 1000000, 2000000}

SignalValues == {"BUY", "SELL", "HOLD"}

TradeAmounts == {1000000, 4000000}

\* main.py line 86: Portfolio(initial_krw=3_000_000)
LIVE_INITIAL_KRW == 3000000

\* backtest.fetch_candles, lines 34-41: a failed request is caught and gives
\* an empty frame; lines 43-46: selecting the candle columns of the frame of
\* an empty answer raises KeyError, outside the try
BtFetchRaises(outcome) == outcome = "empty"

\* run_backtest, lines 80-83: the frame is empty
BtFrameEmpty(outcome) == outcome = "failure"

\* backtest.main, lines 261-263: run_backtest for the next instrument
RunBacktestOne ==
    /\ run_mode = "backtest"
    /\ run_pc = "fetch"
    /\ run_k <= Len(TRADING_PAIRS)
    /\ LET market  == TRADING_PAIRS[run_k]
           outcome == fetched[market]
       IN  IF BtFetchRaises(outcome)
           THEN /\ run_pc' = "raised"
                /\ UNCHANGED <<results, run_k>>
           ELSE /\ IF BtFrameEmpty(outcome)
                   THEN results' = Append(results, [kind |-> "empty"])
                   ELSE \E final \in FinalCapitals :
                          \* a single bar has no defined indicator: no trade
                          /\ outcome = "single" => final = INITIAL_CAPITAL
                          /\ results' = Append(results,
                                 [kind |-> "result", market |-> market,
                                  initial |-> R(INITIAL_CAPITAL), final |-> R(final)])
                /\ run_k' = run_k + 1
                /\ UNCHANGED run_pc
    /\ UNCHANGED <<run_mode, fetched, signals, current_prices, report, trade_amount,
                   pfVars, btVars, fnVars>>

RECURSIVE SumField(_, _)
SumField(rs, fld) ==
    IF rs = <<>> THEN Zero ELSE RAdd(Head(rs)[fld], SumField(Tail(rs), fld))

\* backtest.main line 266 and print_report line 214: the results that are
\* not the empty dict
\* faulty variant: an empty dict is taken as a result that kept its capital
NonEmptyResults_EmptyAsFlat(rs) ==
    [j \in 1..Len(rs) |->
        IF rs[j].kind = "result" THEN rs[j]
        ELSE [kind |-> "result", market |-> TRADING_PAIRS[j],
              initial |-> R(INITIAL_CAPITAL), final |-> R(INITIAL_CAPITAL)]]

NonEmptyResults(rs) == SelectSeq(rs, LAMBDA r : r.kind = "result")

\* backtest.main line 266 and print_report lines 210-239: the combined totals
\* over the results that are not empty
RunReport ==
    /\ run_mode = "backtest"
    /\ run_pc = "fetch"
    /\ run_k > Len(TRADING_PAIRS)
    /\ LET given == NonEmptyResults(results)
           combined_init  == SumField(given, "initial")
           combined_final == SumField(given, "final")
       IN  report' = [kind           |-> "report",
                      markets        |-> [j \in 1..Len(given) |-> given[j].market],
                      combined_init  |-> combined_init,
                      combined_final |-> combined_final,
                      combined_ret   |->
                          IF combined_init # Zero
                          THEN RMul(RDiv(RSub(combined_final, combined_init),
                                         combined_init), R(100))
                          ELSE Zero]
    /\ run_pc' = "done"
    /\ UNCHANGED <<run_mode, fetched, run_k, results, signals, current_prices,
                   trade_amount, pfVars, btVars, fnVars>>

\* market_data.fetch_candles lines 37-47 and get_market_data lines 97-99: a
\* failed request and an empty answer both give an empty frame
LiveFrameEmpty(outcome) == outcome \in {"failure", "empty"}

\* strategy.generate_signal lines 55-64: fewer than 2 bars give HOLD with
\* close None; main.py line 49 formats the price with ":>12,.0f", which
\* raises TypeError on None
LivePriceIsNone(outcome) == outcome = "single"

\* run_once, lines 29-52: fetch, signal and print for the next instrument
RunLiveOne ==
    /\ run_mode = "live"
    /\ run_pc = "fetch"
    /\ run_k <= Len(TRADING_PAIRS)
    /\ LET market  == TRADING_PAIRS[run_k]
           outcome == fetched[market]
       IN  IF LiveFrameEmpty(outcome)
           THEN /\ run_k' = run_k + 1
                /\ UNCHANGED <<signals, current_prices, run_pc>>
           ELSE IF LivePriceIsNone(outcome)
           THEN /\ signals' = Append(signals,
                       [market |-> market, signal |-> "HOLD", close |-> NaN])
                /\ current_prices' = DictSet(current_prices, market, NaN)
                /\ run_pc' = "raised"
                /\ UNCHANGED run_k
           ELSE \E sig \in SignalValues, prc \in Prices :
                  /\ signals' = Append(signals,
                         [market |-> market, signal |-> sig, close |-> R(prc)])
                  /\ current_prices' = DictSet(current_prices, market, R(prc))
                  /\ run_k' = run_k + 1
                  /\ UNCHANGED run_pc
    /\ UNCHANGED <<run_mode, fetched, results, report, trade_amount, pfVars, btVars, fnVars>>

\* run_once, lines 54-61: the signal summary, then the trade loop starts
RunSummary ==
    /\ run_mode = "live"
    /\ run_pc = "fetch"
    /\ run_k > Len(TRADING_PAIRS)
    /\ run_pc' = "trade"
    /\ run_k' = 1
    /\ UNCHANGED <<run_mode, fetched, results, signals, current_prices, report,
                   trade_amount, pfVars, btVars, fnVars>>

\* run_once, lines 62-79: the paper trade of the next signal
RunTradeOne ==
    /\ run_mode = "live"
    /\ run_pc = "trade"
    /\ run_k <= Len(signals)
    /\ LET s      == signals[run_k]
           market == s.market
           price  == IF market \in DOMAIN current_prices
                     THEN current_prices[market] ELSE NaN
       IN  IF price = NaN
           THEN UNCHANGED pfVars
           ELSE IF s.signal = "BUY" /\ market \notin DOMAIN positions
           THEN BuyCall(market, trade_amount, price) /\ UNCHANGED nOps
           ELSE IF s.signal = "SELL" /\ market \in DOMAIN positions
           THEN SellCall(market, price) /\ UNCHANGED nOps
           ELSE UNCHANGED pfVars
    /\ run_k' = run_k + 1
    /\ UNCHANGED <<run_mode, fetched, results, signals, current_prices, report,
                   trade_amount, run_pc, btVars, fnVars>>

\* run_once, line 81: print_status ends the run
RunStatus ==
    /\ run_mode = "live"
    /\ run_pc = "trade"
    /\ run_k > Len(signals)
    /\ run_pc' = "done"
    /\ UNCHANGED <<run_mode, fetched, run_k, results, signals, current_prices, report,
                   trade_amount, pfVars, btVars, fnVars>>

\* backtest.main or main.main starts; retrieval gives any outcome per instrument
RunInit ==
    /\ run_mode \in {"backtest", "live"}
    /\ fetched \in [{TRADING_PAIRS[k] : k \in 1..Len(TRADING_PAIRS)} -> Outcomes]
    /\ run_k = 1
    /\ results = <<>>
    /\ signals = <<>>
    /\ current_prices = <<>>
    /\ report = [kind |-> "none"]
    /\ trade_amount \in {R(a) : a \in TradeAmounts}
    /\ run_pc = "fetch"
    /\ initial_krw = R(LIVE_INITIAL_KRW)
    /\ cash_krw = initial_krw
    /\ positions = <<>>
    /\ trade_history = <<>>
    /\ call = [op |-> "init"]
    /\ nOps = 0
    /\ BacktestIdle
    /\ FnIdle

RunNext ==
    \/ RunBacktestOne
    \/ RunReport
    \/ RunLiveOne
    \/ RunSummary
    \/ RunTradeOne
    \/ RunStatus

RunSpec == RunInit /\ [][RunNext]_vars

(***************************************************************************)
(* strategy.py: check_ma_crossover and generate_signal, applied to a frame *)
(* of bars carrying rsi / ma_short / ma_long; the same bars are also       *)
(* handed to run_backtest (EngineSpec).                                    *)
(***************************************************************************)
MaxLiveBars == 2

\* None, kept apart from NaN and from every rational
None == <<0, -1>>

\* Inputs: rsi on both sides of and on both thresholds, or undefined;
\* moving-average pairs below / equal / above each other, or undefined
LiveRsiValues == {NaN, R(29), R(30), R(70), R(71)}

LiveMaPairs ==
    {<<R(1), R(2)>>, <<R(1), R(1)>>, <<R(2), R(1)>>,
     <<NaN, NaN>>, <<R(1), NaN>>, <<NaN, R(1)>>}

LiveBarValues ==
    {[close |-> R(1), rsi |-> r, ma_short |-> m[1], ma_long |-> m[2]] :
        r \in LiveRsiValues, m \in LiveMaPairs}

\* pd.isna / pd.notna of a float
IsNa(x) == x = NaN

\* round(float(x), nd) and the "{x:.1f}" format: the nearest multiple of
\* 10^-nd, ties to even (x >= 0)
RoundTo(x, nd) ==
    LET scale  == IF nd = 1 THEN 10 ELSE 100
        scaled == RMul(x, R(scale))
        q      == scaled[1] \div scaled[2]
        twice  == 2 * (scaled[1] % scaled[2])
        up     == twice > scaled[2] \/ (twice = scaled[2] /\ q % 2 = 1)
    IN  Rat(IF up THEN q + 1 ELSE q, scale)

\* strategy.py lines 9-33
\* faulty variant: both comparisons of each flag admit equality
check_ma_crossover_Lax(frame) ==
    IF Len(frame) < 2 THEN <<FALSE, FALSE>>
    ELSE LET prev == frame[Len(frame) - 1]
             curr == frame[Len(frame)]
         IN  IF \E x \in {prev.ma_short, prev.ma_long, curr.ma_short, curr.ma_long} :
                    IsNa(x)
             THEN <<FALSE, FALSE>>
             ELSE << FLe(prev.ma_short, prev.ma_long) /\ FGe(curr.ma_short, curr.ma_long),
                     FGe(prev.ma_short, prev.ma_long) /\ FLe(curr.ma_short, curr.ma_long) >>

\* faulty variant: the NaN check is left out and a NaN compares as a number
check_ma_crossover_NoNaCheck(frame) ==
    IF Len(frame) < 2 THEN <<FALSE, FALSE>>
    ELSE LET prev == frame[Len(frame) - 1]
             curr == frame[Len(frame)]
             num(x) == IF IsNa(x) THEN Zero ELSE x
         IN  << RLt(num(prev.ma_short), num(prev.ma_long))
                    /\ RLe(num(curr.ma_long), num(curr.ma_short)),
                RLt(num(prev.ma_long), num(prev.ma_short))
                    /\ RLe(num(curr.ma_short), num(curr.ma_long)) >>

check_ma_crossover(frame) ==
    IF Len(frame) < 2 THEN <<FALSE, FALSE>>
    ELSE LET prev == frame[Len(frame) - 1]
             curr == frame[Len(frame)]
         IN  IF \E x \in {prev.ma_short, prev.ma_long, curr.ma_short, curr.ma_long} :
                    IsNa(x)
             THEN <<FALSE, FALSE>>
             ELSE << FLt(prev.ma_short, prev.ma_long) /\ FGe(curr.ma_short, curr.ma_long),
                     FGt(prev.ma_short, prev.ma_long) /\ FLe(curr.ma_short, curr.ma_long) >>

\* lines 55-64: the dict returned for a frame of fewer than two rows
\* ("데이터 부족" is "data insufficient")
\* faulty variant: the close of the only row is reported
InsufficientData_WithClose(frame, market) ==
    [kind |-> "signal", market |-> market, signal |-> "HOLD", rsi |-> None,
     ma_short |-> None, ma_long |-> None,
     close |-> IF Len(frame) = 1 THEN frame[1].close ELSE None,
     reason |-> <<"data insufficient">>]

InsufficientData(frame, market) ==
    [kind |-> "signal", market |-> market, signal |-> "HOLD", rsi |-> None,
     ma_short |-> None, ma_long |-> None, close |-> None,
     reason |-> <<"data insufficient">>]

\* lines 75-82: the signal chosen from the latest rsi and the two flags
\* faulty variant: the backtest's entry rule, which asks for no golden cross
DecideSignal_RsiAlone(rsi, golden_cross, dead_cross) ==
    IF ~IsNa(rsi) /\ FLt(rsi, R(RSI_OVERSOLD)) THEN "BUY"
    ELSE IF ~IsNa(rsi) /\ FGt(rsi, R(RSI_OVERBOUGHT)) /\ dead_cross THEN "SELL"
    ELSE "HOLD"

DecideSignal(rsi, golden_cross, dead_cross) ==
    IF ~IsNa(rsi) /\ FLt(rsi, R(RSI_OVERSOLD)) /\ golden_cross THEN "BUY"
    ELSE IF ~IsNa(rsi) /\ FGt(rsi, R(RSI_OVERBOUGHT)) /\ dead_cross THEN "SELL"
    ELSE "HOLD"

\* lines 77, 80, 83-89: the reason, as the sequence of its pieces
SignalReason(signal, rsi, ma_short, ma_long) ==
    IF signal = "BUY"
    THEN <<"RSI=", RoundTo(rsi, 1), " (oversold) + golden cross">>
    ELSE IF signal = "SELL"
    THEN <<"RSI=", RoundTo(rsi, 1), " (overbought) + dead cross">>
    ELSE LET parts ==
                 (IF ~IsNa(rsi) THEN <<"RSI=", RoundTo(rsi, 1)>> ELSE <<>>)
                 \o (IF ~IsNa(ma_short) /\ ~IsNa(ma_long)
                     THEN IF FGt(ma_short, ma_long)
                          THEN <<"short>long (uptrend)">>
                          ELSE <<"short<long (downtrend)">>
                     ELSE <<>>)
         IN  IF parts # <<>> THEN parts ELSE <<"conditions not met">>

\* strategy.py lines 36-99
generate_signal(frame, market) ==
    IF Len(frame) < 2 THEN InsufficientData(frame, market)
    ELSE LET latest   == frame[Len(frame)]
             rsi      == latest.rsi
             ma_short == latest.ma_short
             ma_long  == latest.ma_long
             close    == latest.close
             cross    == check_ma_crossover(frame)
             signal   == DecideSignal(rsi, cross[1], cross[2])
         IN  [kind     |-> "signal",
              market   |-> market,
              signal   |-> signal,
              rsi      |-> IF ~IsNa(rsi) THEN RoundTo(rsi, 2) ELSE None,
              ma_short |-> IF ~IsNa(ma_short) THEN RoundTo(ma_short, 2) ELSE None,
              ma_long  |-> IF ~IsNa(ma_long) THEN RoundTo(ma_long, 2) ELSE None,
              close    |-> close,
              reason   |-> SignalReason(signal, rsi, ma_short, ma_long)]

\* generate_signal(df, market) is called on the frame
GenerateSignal ==
    /\ signal_info.kind = "none"
    /\ signal_info' = generate_signal(live_df, "KRW-BTC")
    /\ UNCHANGED <<live_df, series, period, rsi_out, pfVars, btVars, runVars>>

\* the bars of the frame under the column names of backtest.py
AsBacktestBars(frame) ==
    [k \in 1..Len(frame) |->
        [close |-> frame[k].close, rsi |-> frame[k].rsi,
         ma5 |-> frame[k].ma_short, ma20 |-> frame[k].ma_long]]

\* a frame of 0..MaxLiveBars bars is given to generate_signal and to run_backtest
EngineInit ==
    /\ \E n \in 0..MaxLiveBars : live_df \in [1..n -> LiveBarValues]
    /\ signal_info = [kind |-> "none"]
    /\ series = <<>>
    /\ period = 0
    /\ rsi_out = [kind |-> "idle"]
    /\ capital = R(INITIAL_CAPITAL)
    /\ raw = AsBacktestBars(live_df)
    /\ df = <<>>
    /\ row_i = 0
    /\ cash = Zero
    /\ position = Zero
    /\ entry_price = Zero
    /\ entry_date = NoDate
    /\ trades = <<>>
    /\ equity = <<>>
    /\ result = [kind |-> "none"]
    /\ pc = "start"
    /\ PortfolioIdle
    /\ RunIdle

EngineNext == GenerateSignal \/ BtPrepare \/ BtBar \/ BtFinish

EngineSpec == EngineInit /\ [][EngineNext]_vars

(***************************************************************************)
(* backtest.calc_rsi (rolling mean) and market_data.calculate_rsi (Wilder  *)
(* smoothing by an exponentially weighted mean), applied to a close series *)
(* with a period argument (IndicatorSpec).                                 *)
(***************************************************************************)
MaxSeries == 5

MaxPeriod == 3

\* Inputs: closes that rise, fall and repeat
SeriesCloses == {1, 2, 3}

\* series.diff(): NaN on the first bar
Diff(s) == [k \in 1..Len(s) |-> IF k = 1 THEN NaN ELSE RSub(s[k], s[k - 1])]

\* delta.clip(lower=0), a NaN stays NaN
ClipLower0(x) == [k \in 1..Len(x) |->
                    IF x[k] = NaN THEN NaN
                    ELSE IF RLt(x[k], Zero) THEN Zero ELSE x[k]]

\* -delta.clip(upper=0), a NaN stays NaN
NegClipUpper0(x) == [k \in 1..Len(x) |->
                       IF x[k] = NaN THEN NaN
                       ELSE IF RLt(Zero, x[k]) THEN Zero ELSE RNeg(x[k])]

\* the sum of x[a..b], taken half by half
RECURSIVE SumRange(_, _, _)
SumRange(x, a, b) ==
    IF a > b THEN Zero
    ELSE IF a = b THEN x[a]
    ELSE LET mid == (a + b) \div 2
         IN  RAdd(SumRange(x, a, mid), SumRange(x, mid + 1, b))

\* x.rolling(window).mean() at bar k: NaN until the window holds `window`
\* numbers
\* faulty variant: a centred window, which reads bars after k
RollingMean_Centred(x, window, k) ==
    LET from == k - (window \div 2)
        to   == from + window - 1
    IN  IF from < 1 \/ to > Len(x) \/ \E j \in from..to : x[j] = NaN THEN NaN
        ELSE RDiv(SumRange(x, from, to), R(window))

RollingMean(x, window, k) ==
    IF k < window \/ \E j \in (k - window + 1)..k : x[j] = NaN THEN NaN
    ELSE RDiv(SumRange(x, k - window + 1, k), R(window))

RECURSIVE RPow(_, _)
RPow(w, e) == IF e = 0 THEN R(1) ELSE RMul(w, RPow(w, e - 1))

\* the weighted sum of the numbers of x[1..k] (or of ones, for the weights
\* alone), bar j weighing w^(k-j)
RECURSIVE EwmSum(_, _, _, _, _)
EwmSum(x, w, k, j, ones) ==
    IF j > k THEN Zero
    ELSE RAdd(IF x[j] = NaN THEN Zero
              ELSE RMul(RPow(w, k - j), IF ones THEN R(1) ELSE x[j]),
              EwmSum(x, w, k, j + 1, ones))

\* x.ewm(com=com, min_periods=min_periods).mean() at bar k (adjust=True):
\* the mean of the numbers so far with weights (com / (1 + com))^age, NaN
\* until min_periods numbers were seen
EwmMean(x, com, min_periods, k) ==
    IF Cardinality({j \in 1..k : x[j] # NaN}) < min_periods THEN NaN
    ELSE LET w == Rat(com, 1 + com)
         IN  RDiv(EwmSum(x, w, k, 1, FALSE), EwmSum(x, w, k, 1, TRUE))

\* rs = avg_gain / avg_loss.replace(0, np.nan); 100 - (100 / (1 + rs))
\* faulty variant: the zero average loss is not replaced, and a positive
\* gain over it is infinite (rsi 100), 0 / 0 is NaN
RsiFrom_NoZeroGuard(avg_gain, avg_loss) ==
    IF avg_gain = NaN \/ avg_loss = NaN THEN NaN
    ELSE IF avg_loss = Zero
    THEN IF avg_gain = Zero THEN NaN ELSE R(100)
    ELSE RSub(R(100), RDiv(R(100), RAdd(R(1), RDiv(avg_gain, avg_loss))))

RsiFrom(avg_gain, avg_loss) ==
    LET loss == IF avg_loss = Zero THEN NaN ELSE avg_loss
    IN  IF avg_gain = NaN \/ loss = NaN THEN NaN
        ELSE RSub(R(100), RDiv(R(100), RAdd(R(1), RDiv(avg_gain, loss))))

\* backtest.py lines 56-61
calc_rsi(s, p) ==
    LET delta == Diff(s)
        up    == ClipLower0(delta)
        down  == NegClipUpper0(delta)
    IN  [k \in 1..Len(s) |->
            RsiFrom(RollingMean(up, p, k), RollingMean(down, p, k))]

\* market_data.py lines 66-80
calculate_rsi(s, p) ==
    LET delta == Diff(s)
        gain  == ClipLower0(delta)
        loss  == NegClipUpper0(delta)
    IN  [k \in 1..Len(s) |->
            RsiFrom(EwmMean(gain, p - 1, p, k), EwmMean(loss, p - 1, p, k))]

\* calc_rsi(series, period) is called
CalcRsi ==
    /\ rsi_out.kind = "out"
    /\ ~rsi_out.roll_done
    /\ rsi_out' = [rsi_out EXCEPT !.roll_done = TRUE, !.roll = calc_rsi(series, period)]
    /\ UNCHANGED <<live_df, signal_info, series, period, pfVars, btVars, runVars>>

\* calculate_rsi(series, period) is called
CalculateRsi ==
    /\ rsi_out.kind = "out"
    /\ ~rsi_out.wilder_done
    /\ rsi_out' = [rsi_out EXCEPT !.wilder_done = TRUE,
                                  !.wilder = calculate_rsi(series, period)]
    /\ UNCHANGED <<live_df, signal_info, series, period, pfVars, btVars, runVars>>

\* a close series of 0..MaxSeries bars and a period of 1..MaxPeriod bars
IndicatorInit ==
    /\ \E n \in 0..MaxSeries : series \in [1..n -> {R(c) : c \in SeriesCloses}]
    /\ period \in 1..MaxPeriod
    /\ rsi_out = [kind |-> "out", roll_done |-> FALSE, roll |-> <<>>,
                  wilder_done |-> FALSE, wilder |-> <<>>]
    /\ live_df = <<>>
    /\ signal_info = [kind |-> "idle"]
    /\ PortfolioIdle
    /\ BacktestIdle
    /\ RunIdle

IndicatorNext == CalcRsi \/ CalculateRsi

IndicatorSpec == IndicatorInit /\ [][IndicatorNext]_vars

(***************************************************************************)
(* backtest.py: add_indicators computed from the closes with the windows   *)
(* of the module, then the walk of run_backtest (PipelineSpec).            *)
(***************************************************************************)
RSI_PERIOD == 14

MA_SHORT == 5

MA_LONG == 20

MaxTail == 4

\* Inputs: twenty bars that fall (one up by 1, one down by 5, ...: rsi
\* below RSI_OVERSOLD, short average below long) or move sideways (48, 52,
\* 48, ...: rsi 50, both averages 50), followed by 0..MaxTail bars closing
\* low, in between or high
FallingCloses == [k \in 1..MA_LONG |-> 60 - 2 * k + 3 * (k % 2)]

SidewaysCloses == [k \in 1..MA_LONG |-> 48 + 4 * (k % 2)]

TailCloses == {10, 40, 100}

\* add_indicators, lines 66-68: rsi, ma5 and ma20 of every bar
Indicators(cs) ==
    LET rsi == calc_rsi(cs, RSI_PERIOD)
    IN  [k \in 1..Len(cs) |->
            [close |-> cs[k], rsi |-> rsi[k],
             ma5 |-> RollingMean(cs, MA_SHORT, k),
             ma20 |-> RollingMean(cs, MA_LONG, k)]]

\* run_backtest line 85, first half: the indicator columns of the fetched bars
BtIndicators ==
    /\ pc = "fetched"
    /\ raw' = Indicators(series)
    /\ pc' = "start"
    /\ UNCHANGED <<capital, df, row_i, cash, position, entry_price, entry_date, trades,
                   equity, result, pfVars, runVars, fnVars>>

\* run_backtest(market) is called; fetch_candles returns the closes
PipelineInit ==
    /\ \E head \in {FallingCloses, SidewaysCloses}, n \in 0..MaxTail :
          \E tail \in [1..n -> TailCloses] :
              series = [k \in 1..(MA_LONG + n) |->
                           R(IF k <= MA_LONG THEN head[k] ELSE tail[k - MA_LONG])]
    /\ capital = R(INITIAL_CAPITAL)
    /\ raw = <<>>
    /\ df = <<>>
    /\ row_i = 0
    /\ cash = Zero
    /\ position = Zero
    /\ entry_price = Zero
    /\ entry_date = NoDate
    /\ trades = <<>>
    /\ equity = <<>>
    /\ result = [kind |-> "none"]
    /\ pc = "fetched"
    /\ live_df = <<>>
    /\ signal_info = [kind |-> "idle"]
    /\ period = 0
    /\ rsi_out = [kind |-> "idle"]
    /\ PortfolioIdle
    /\ RunIdle

PipelineNext == BtIndicators \/ BtPrepare \/ BtBar \/ BtFinish

PipelineSpec == PipelineInit /\ [][PipelineNext]_vars

(***************************************************************************)
(* Readings of the trade history used to state the portfolio claims.       *)
(***************************************************************************)
RECURSIVE RSum(_)
RSum(seq) == IF seq = <<>> THEN Zero ELSE RAdd(Head(seq), RSum(Tail(seq)))

\* index of the last SELL record of market m in history h (0 when there is none)
LastSellIdx(h, m) ==
    LET S == {i \in 1..Len(h) : h[i].type = "SELL" /\ h[i].market = m}
    IN  IF S = {} THEN 0 ELSE CHOOSE i \in S : \A j \in S : j <= i

\* the BUY records of market m made since m was last FLAT, in order
BuysSinceFlat(h, m) ==
    LET from == LastSellIdx(h, m)
        later == [i \in 1..(Len(h) - from) |-> h[from + i]]
    IN  SelectSeq(later, LAMBDA t : t.market = m)

AmountsOf(buys) == [i \in 1..Len(buys) |-> buys[i].amount_krw]

\* cash debited by every BUY of the history: amount + 0.05% of amount
Debits(h) ==
    LET b == SelectSeq(h, LAMBDA t : t.type = "BUY")
    IN  [i \in 1..Len(b) |-> RAdd(b[i].amount_krw, RMul(b[i].amount_krw, Rat(1, 2000)))]

\* cash credited by every SELL of the history
Credits(h) ==
    LET s == SelectSeq(h, LAMBDA t : t.type = "SELL")
    IN  [i \in 1..Len(s) |-> s[i].proceeds_krw]

PfState == <<cash_krw, positions, trade_history>>

(***************************************************************************)
(* Claims on Portfolio (checked under PortfolioSpec).                      *)
(***************************************************************************)

\* C1: portfolio cash is never negative in any reachable state (every buy
\* with amount + fee > cash_before is refused, every accepted buy leaves
\* cash_before - amount - fee >= 0).
C1_CashNeverNegative == RLe(Zero, cash_krw)

\* C5: a buy whose requested amount exceeds the available cash returns
\* failure and leaves cash, positions and trade history unchanged.
C5_BuyOverCashIsNoOp ==
    [][ (call'.op = "buy" /\ RLt(cash_krw, call'.amount_krw))
            => (call'.ret = FALSE /\ PfState' = PfState) ]_vars

\* C5 witness: a refused buy on an instrument that already holds a position.
C5_Witness ==
    /\ call.op = "buy"
    /\ call.ret = FALSE
    /\ RLt(cash_krw, call.amount_krw)
    /\ call.market \in DOMAIN positions

\* C6: a sell on an instrument with no open position returns failure and
\* changes nothing; a sell right after a successful sell of the same
\* instrument fails.
C6_SellWhileFlatIsNoOp ==
    [][ /\ (call'.op = "sell" /\ call'.market \notin DOMAIN positions)
            => (call'.ret = FALSE /\ PfState' = PfState)
        /\ (call.op = "sell" /\ call.ret = TRUE
              /\ call'.op = "sell" /\ call'.market = call.market)
            => (call'.ret = FALSE /\ PfState' = PfState) ]_vars

\* C6 witness: a failed sell whose previous history record is the successful
\* SELL of the same instrument.
C6_Witness ==
    /\ call.op = "sell"
    /\ call.ret = FALSE
    /\ Len(trade_history) > 0
    /\ trade_history[Len(trade_history)].type = "SELL"
    /\ trade_history[Len(trade_history)].market = call.market

\* C7: one Position per instrument, stored under its own key; an accepted
\* buy while FLAT creates it (quantity = amount/price, entry price = price,
\* invested = amount), an accepted buy while OPEN averages into the same
\* Position (quantity += amount/price, invested += amount, entry price =
\* invested/quantity); a position appears only by an accepted buy and goes
\* only by a successful sell of that instrument.
C7_SinglePositionLifecycle ==
    [][ \A m \in Markets :
          LET open  == m \in DOMAIN positions
              open2 == m \in DOMAIN positions'
              buyOk  == call'.op = "buy" /\ call'.market = m /\ call'.ret = TRUE
              sellOk == call'.op = "sell" /\ call'.market = m /\ call'.ret = TRUE
          IN  /\ open2 => positions'[m].market = m
              /\ (buyOk /\ ~open) =>
                    /\ open2
                    /\ positions'[m].quantity = RDiv(call'.amount_krw, call'.price)
                    /\ positions'[m].entry_price = call'.price
                    /\ positions'[m].amount_krw = call'.amount_krw
              /\ (buyOk /\ open) =>
                    /\ open2
                    /\ positions'[m].quantity =
                          RAdd(positions[m].quantity, RDiv(call'.amount_krw, call'.price))
                    /\ positions'[m].amount_krw =
                          RAdd(positions[m].amount_krw, call'.amount_krw)
                    /\ positions'[m].entry_price =
                          RDiv(positions'[m].amount_krw, positions'[m].quantity)
              /\ sellOk => (open /\ ~open2)
              /\ (~buyOk /\ ~sellOk) =>
                    /\ open2 = open
                    /\ open => positions'[m] = positions[m] ]_vars

\* C7 witness: a position built by a buy while FLAT and a second buy while
\* OPEN, after an earlier sell of the same instrument.
C7_Witness ==
    /\ call.op = "buy"
    /\ call.ret = TRUE
    /\ call.market \in DOMAIN positions
    /\ Len(BuysSinceFlat(trade_history, call.market)) = 2
    /\ LastSellIdx(trade_history, call.market) > 0

\* C8: after two accepted buys a1@p1, a2@p2 into a FLAT instrument with no
\* sell in between, avg_entry_price = (a1+a2)/(a1/p1 + a2/p2).
C8_AverageCost ==
    \A m \in DOMAIN positions :
        LET b == BuysSinceFlat(trade_history, m)
        IN  Len(b) = 2 =>
              positions[m].entry_price =
                  RDiv(RAdd(b[1].amount_krw, b[2].amount_krw),
                       RAdd(RDiv(b[1].amount_krw, b[1].price),
                            RDiv(b[2].amount_krw, b[2].price)))

\* C8 witness: two buys at different prices and amounts into one instrument.
C8_Witness ==
    \E m \in DOMAIN positions :
        LET b == BuysSinceFlat(trade_history, m)
        IN  /\ Len(b) = 2
            /\ b[1].price # b[2].price
            /\ b[1].amount_krw # b[2].amount_krw

\* C9: a successful sell at price p credits cash with quantity*p less the
\* 0.05% fee on it, records profit = net proceeds - invested amount, appends
\* exactly one SELL record and removes the position.
C9_SellSettlement ==
    [][ (call'.op = "sell" /\ call'.market \in DOMAIN positions) =>
          LET pos   == positions[call'.market]
              gross == RMul(pos.quantity, call'.price)
              net   == RSub(gross, RMul(gross, Rat(1, 2000)))
              rec   == trade_history'[Len(trade_history')]
          IN  /\ call'.ret = TRUE
              /\ cash_krw' = RAdd(cash_krw, net)
              /\ Len(trade_history') = Len(trade_history) + 1
              /\ SubSeq(trade_history', 1, Len(trade_history)) = trade_history
              /\ rec.type = "SELL"
              /\ rec.market = call'.market
              /\ rec.price = call'.price
              /\ rec.proceeds_krw = net
              /\ rec.profit_krw = RSub(net, pos.amount_krw)
              /\ call'.market \notin DOMAIN positions'
              /\ \A m \in DOMAIN positions \ {call'.market} :
                    m \in DOMAIN positions' /\ positions'[m] = positions[m] ]_vars

\* C9 witness: a successful sell of an averaged position at a loss.
C9_Witness ==
    /\ call.op = "sell"
    /\ call.ret = TRUE
    /\ Len(trade_history) >= 3
    /\ trade_history[Len(trade_history) - 1].type = "BUY"
    /\ trade_history[Len(trade_history) - 2].type = "BUY"
    /\ trade_history[Len(trade_history) - 1].market = call.market
    /\ trade_history[Len(trade_history) - 2].market = call.market
    /\ RLt(trade_history[Len(trade_history)].profit_krw, Zero)

\* C10: each open position's invested amount is the sum of the amounts of
\* the accepted buys since the instrument was last FLAT, and the cash debited
\* for buys is amount + 0.05% of amount (fees never enter the invested
\* amount): cash = initial - sum of debits + sum of sell proceeds.
C10_InvestedIsNetOfFees ==
    /\ \A m \in DOMAIN positions :
          positions[m].amount_krw = RSum(AmountsOf(BuysSinceFlat(trade_history, m)))
    /\ cash_krw = RAdd(RSub(initial_krw, RSum(Debits(trade_history))),
                       RSum(Credits(trade_history)))

\* C10 witness: an open position built from two buys after an earlier
\* round trip of the same instrument.
C10_Witness ==
    \E m \in DOMAIN positions :
        /\ Len(BuysSinceFlat(trade_history, m)) = 2
        /\ LastSellIdx(trade_history, m) > 0
        /\ positions[m].amount_krw = R(6000)

(***************************************************************************)
(* Claims on the backtest driver (checked under BacktestSpec).             *)
(***************************************************************************)
\* the run ended with the forced liquidation of an open position
ForcedLiquidation ==
    Len(trades) > 0 /\ trades[Len(trades)].reason = ForcedReason

\* the fetched bars on which rsi, ma5 and ma20 are all defined
DefinedInputBars ==
    {k \in 1..Len(raw) : raw[k].rsi # NaN /\ raw[k].ma5 # NaN /\ raw[k].ma20 # NaN}

\* a loop iteration is being taken on a row where a position is held
OpenAtBar == pc = "loop" /\ row_i <= Len(df) /\ RLt(Zero, position)

\* the iteration sold the whole position at the row's close
ExitedAtBar ==
    /\ position' = Zero
    /\ cash' = RMul(position, df[row_i].close)
    /\ Len(trades') = Len(trades) + 1
    /\ trades'[Len(trades')].exit_price = df[row_i].close
    /\ trades'[Len(trades')].exit_date = df[row_i].date

\* the iteration left the position as it was
HeldAtBar == position' = position /\ cash' = cash /\ trades' = trades

\* C2 (as stated): the number of equity points equals the number of input
\* bars, bars lacking rsi / ma_short / ma_long included, plus one iff a
\* forced liquidation occurred at the end.
C2_EquityPerInputBar ==
    (pc = "done" /\ result.kind = "result") =>
        Len(equity) = Len(raw) + (IF ForcedLiquidation THEN 1 ELSE 0)

\* C2 (amended): the number of equity points equals the number of input
\* bars on which rsi, ma_short and ma_long are all defined (the others are
\* dropped before the walk and contribute no point), plus one iff a forced
\* liquidation occurred at the end.
C2_EquityPerDefinedBar ==
    (pc = "done" /\ result.kind = "result") =>
        Len(equity) = Cardinality(DefinedInputBars)
                      + (IF ForcedLiquidation THEN 1 ELSE 0)

\* C2 witness: a finished run over bars of which one was dropped, ending in
\* a forced liquidation.
C2_Witness ==
    /\ pc = "done"
    /\ result.kind = "result"
    /\ ForcedLiquidation
    /\ Cardinality(DefinedInputBars) = 2
    /\ Len(raw) = 3
    /\ Len(equity) = 3

FlatAtBar == pc = "loop" /\ row_i <= Len(df) /\ position = Zero

\* the iteration put all the cash into a position at the row's close
EnteredAtBar ==
    /\ position' = RDiv(cash, df[row_i].close)
    /\ RLt(Zero, position')
    /\ cash' = Zero
    /\ entry_price' = df[row_i].close
    /\ entry_date' = df[row_i].date
    /\ trades' = trades

\* a position was held when fetched bar k began: some trade was entered
\* before k and left at k or later (a forced liquidation leaves after the
\* last fetched bar)
OpenBeforeBar(k) ==
    \E t \in 1..Len(trades) :
        /\ trades[t].entry_date < k
        /\ (k <= trades[t].exit_date \/ trades[t].reason = ForcedReason)

\* a position was opened at fetched bar k, at its close
OpenedAtInputBar(k) ==
    \E t \in 1..Len(trades) :
        trades[t].entry_date = k /\ trades[t].entry_price = raw[k].close

\* C11 (as stated): at every bar where the ledger is FLAT, a position is
\* opened at the bar's close when rsi < RSI_OVERSOLD, whatever the moving
\* averages are, and no position is opened when rsi >= RSI_OVERSOLD.
C11_EntryAtEveryOversoldBar ==
    (pc = "done" /\ result.kind = "result") =>
        \A k \in 1..Len(raw) :
            ~OpenBeforeBar(k) =>
                (FLt(raw[k].rsi, R(30)) <=> OpenedAtInputBar(k))

\* C11 (amended): at every bar on which rsi and both moving averages are
\* defined, where the ledger is FLAT and rsi < RSI_OVERSOLD, a position is
\* opened with all the cash at the bar's close (quantity = cash / close, cash
\* becomes 0) whether or not a golden cross happened; no position is opened
\* at a bar where rsi >= RSI_OVERSOLD; and a bar lacking rsi or a moving
\* average is dropped before the walk and opens nothing.
C11_EntryAtEveryDefinedOversoldBar ==
    [][ /\ FlatAtBar =>
             IF FLt(df[row_i].rsi, R(30))
             THEN EnteredAtBar
             ELSE position' = Zero /\ cash' = cash /\ trades' = trades
        /\ RLt(Zero, position') => entry_date' \in DefinedInputBars ]_vars

\* C11 witness: all the cash went into a position at a bar with no golden
\* cross, after an oversold bar lacking its moving averages opened nothing.
C11_Witness ==
    /\ pc = "loop"
    /\ row_i > 1
    /\ RLt(Zero, position)
    /\ cash = Zero
    /\ entry_date = df[row_i - 1].date
    /\ ~df[row_i - 1].golden
    /\ \E k \in 1..(entry_date - 1) :
          FLt(raw[k].rsi, R(30)) /\ k \notin DefinedInputBars

\* the walk is over and run_backtest goes on to its end
FinishStep == pc = "loop" /\ pc' = "done"

\* the trades tagged as period-end forced liquidation
ForcedTrades(ts) == {t \in 1..Len(ts) : ts[t].reason = ForcedReason}

\* the finish closed the open position at close price c: one more trade, the
\* only one tagged forced liquidation, one more equity point, all of it cash
LiquidatedAt(c) ==
    /\ Len(trades') = Len(trades) + 1
    /\ SubSeq(trades', 1, Len(trades)) = trades
    /\ ForcedTrades(trades') = {Len(trades')}
    /\ trades'[Len(trades')].exit_price = c
    /\ Len(equity') = Len(equity) + 1
    /\ SubSeq(equity', 1, Len(equity)) = equity
    /\ equity'[Len(equity')] = RMul(position, c)
    /\ result'.final = RMul(position, c)
    /\ cash' = RMul(position, c)

\* the finish appended nothing
NothingAppended ==
    /\ trades' = trades
    /\ ForcedTrades(trades') = {}
    /\ equity' = equity
    /\ result'.final = cash
    /\ cash' = cash

\* C12 (as stated): if the ledger is still OPEN after the last bar it is
\* closed at the last bar's close by exactly one final Trade tagged forced
\* liquidation, with one final equity point and final_capital = quantity *
\* last close; if it is FLAT nothing is appended; in every case the run
\* ends FLAT (no position quantity left).
C12_LiquidatedAtLastBarEndsFlat ==
    [][ FinishStep =>
          /\ IF RLt(Zero, position)
             THEN LiquidatedAt(raw[Len(raw)].close)
             ELSE NothingAppended
          /\ position' = Zero ]_vars

\* C12 (amended): if the ledger is still OPEN after the walk it is closed at
\* the close of the last bar on which rsi, ma_short and ma_long are all
\* defined (the last row the walk visited), by exactly one final Trade
\* tagged forced liquidation, with one final equity point and final_capital
\* = quantity * that close; if it is FLAT nothing is appended; in every
\* case final_capital is the cash held at the end, while the position
\* quantity is left as it was (the forced liquidation does not zero it).
C12_LiquidatedAtLastDefinedBar ==
    [][ FinishStep =>
          /\ IF RLt(Zero, position)
             THEN LET k == CHOOSE j \in DefinedInputBars :
                               \A h \in DefinedInputBars : h <= j
                  IN  /\ LiquidatedAt(raw[k].close)
                      /\ trades'[Len(trades')].exit_date = k
             ELSE NothingAppended
          /\ result'.final = cash'
          /\ position' = position ]_vars

\* C12 witness: a run ended by a forced liquidation at the close of its last
\* defined bar, which differs from the close of the last fetched bar.
C12_Witness ==
    /\ pc = "done"
    /\ result.kind = "result"
    /\ ForcedLiquidation
    /\ RLt(Zero, position)
    /\ Len(raw) \notin DefinedInputBars
    /\ trades[Len(trades)].exit_price # raw[Len(raw)].close
    /\ result.final = RMul(position, trades[Len(trades)].exit_price)

\* no point of the curve lies below the point before it
NonDecreasing(eq) == \A k \in 2..Len(eq) : RLe(eq[k - 1], eq[k])

\* C17: the maximum drawdown the backtest reports for its equity curve is a
\* number, never above 0, and is 0 when the curve is empty or
\* non-decreasing.
C17_MddNeverPositive ==
    (pc = "done" /\ result.kind = "result") =>
        /\ result.mdd # NaN
        /\ RLe(result.mdd, Zero)
        /\ (equity = <<>> \/ NonDecreasing(equity)) => result.mdd = Zero

\* C17 witness: a curve that rose to twice the capital and fell back to it
\* reports a drawdown of -50.
C17_Witness ==
    /\ pc = "done"
    /\ result.kind = "result"
    /\ Len(equity) >= 3
    /\ \E k \in 2..Len(equity) : RLt(equity[k - 1], equity[k])
    /\ ~NonDecreasing(equity)
    /\ result.mdd = R(-50)

(***************************************************************************)
(* Claims on the live signal generator (checked under EngineSpec).         *)
(***************************************************************************)

\* generate_signal has returned
SignalGiven == signal_info.kind = "signal"

\* the frame has a latest transition: a previous bar and a latest bar
HasTransition == Len(live_df) >= 2

LatestBar == live_df[Len(live_df)]

PreviousBar == live_df[Len(live_df) - 1]

\* all four moving averages of the latest transition are defined
TransitionDefined ==
    /\ HasTransition
    /\ PreviousBar.ma_short # NaN /\ PreviousBar.ma_long # NaN
    /\ LatestBar.ma_short # NaN /\ LatestBar.ma_long # NaN

\* golden cross on the latest transition: short below long before, at or
\* above it now
GoldenOnLatest ==
    /\ TransitionDefined
    /\ RLt(PreviousBar.ma_short, PreviousBar.ma_long)
    /\ RLe(LatestBar.ma_long, LatestBar.ma_short)

\* dead cross on the latest transition: short above long before, at or
\* below it now
DeadOnLatest ==
    /\ TransitionDefined
    /\ RLt(PreviousBar.ma_long, PreviousBar.ma_short)
    /\ RLe(LatestBar.ma_short, LatestBar.ma_long)

\* C13: the live signal is BUY iff the latest rsi is defined, below
\* RSI_OVERSOLD and a golden cross occurred on the latest transition; SELL
\* iff the latest rsi is defined, above RSI_OVERBOUGHT and a dead cross
\* occurred on the latest transition; HOLD in every other case.
C13_LiveSignalRule ==
    SignalGiven =>
        LET buy  == /\ GoldenOnLatest
                    /\ LatestBar.rsi # NaN
                    /\ RLt(LatestBar.rsi, R(30))
            sell == /\ DeadOnLatest
                    /\ LatestBar.rsi # NaN
                    /\ RLt(R(70), LatestBar.rsi)
        IN  /\ signal_info.signal = "BUY" <=> buy
            /\ signal_info.signal = "SELL" <=> sell
            /\ signal_info.signal = "HOLD" <=> ~buy /\ ~sell

\* C13 witness: an oversold latest bar on a defined transition without a
\* golden cross gave HOLD.
C13_Witness ==
    /\ SignalGiven
    /\ HasTransition
    /\ LatestBar.rsi = R(29)
    /\ TransitionDefined
    /\ ~GoldenOnLatest
    /\ signal_info.signal = "HOLD"

\* the frames ending at each bar of the given one
FramesUpTo(frame) == {SubSeq(frame, 1, n) : n \in 0..Len(frame)}

\* C14: on no transition between consecutive bars are golden cross and dead
\* cross both true, neither in what check_ma_crossover returns for a frame
\* ending at the transition nor in the golden / dead flags add_indicators
\* puts on the bar.
C14_CrossesExcludeEachOther ==
    /\ SignalGiven =>
           \A f \in FramesUpTo(live_df) :
               ~(check_ma_crossover(f)[1] /\ check_ma_crossover(f)[2])
    /\ pc # "start" =>
           \A k \in 1..Len(raw) :
               ~(AddCrossFlags(raw)[k].golden /\ AddCrossFlags(raw)[k].dead)

\* C14 witness: short and long are equal on the latest bar after short was
\* below long: check_ma_crossover reports the golden cross alone, and the
\* backtest flags of the bar are both false.
C14_Witness ==
    /\ SignalGiven
    /\ pc # "start"
    /\ TransitionDefined
    /\ LatestBar.ma_short = LatestBar.ma_long
    /\ check_ma_crossover(live_df) = <<TRUE, FALSE>>
    /\ ~AddCrossFlags(raw)[Len(raw)].golden
    /\ ~AddCrossFlags(raw)[Len(raw)].dead

\* the bar lacks rsi, ma_short or ma_long
UndefinedBar(bar) == bar.rsi = NaN \/ bar.ma_short = NaN \/ bar.ma_long = NaN

\* C15: a bar whose rsi, ma_short or ma_long is undefined never opens or
\* closes a backtest position (no entry and no exit is dated on it) and,
\* as the latest bar, never yields a BUY or SELL live signal; and
\* check_ma_crossover returns (false, false) whenever one of the two bars
\* of the transition has an undefined moving average.
C15_UndefinedNeverActs ==
    /\ \A t \in 1..Len(trades) :
           /\ ~UndefinedBar(live_df[trades[t].entry_date])
           /\ ~UndefinedBar(live_df[trades[t].exit_date])
    /\ RLt(Zero, position) => ~UndefinedBar(live_df[entry_date])
    /\ (SignalGiven /\ HasTransition /\ UndefinedBar(LatestBar)) =>
           signal_info.signal = "HOLD"
    /\ SignalGiven =>
           \A f \in FramesUpTo(live_df) :
               (Len(f) >= 2 /\ \E b \in {f[Len(f) - 1], f[Len(f)]} :
                                   b.ma_short = NaN \/ b.ma_long = NaN)
                   => check_ma_crossover(f) = <<FALSE, FALSE>>

\* C15 witness: after a bar that opened a position, the latest bar has no
\* rsi while its moving averages make a golden cross: the signal is HOLD
\* and the backtest dropped the bar, closing the position only by the
\* forced liquidation dated on the bar before.
C15_Witness ==
    /\ SignalGiven
    /\ GoldenOnLatest
    /\ LatestBar.rsi = NaN
    /\ signal_info.signal = "HOLD"
    /\ pc = "done"
    /\ Len(df) < Len(raw)
    /\ Len(trades) = 1
    /\ trades[1].exit_date = Len(raw) - 1

\* C19: generate_signal on a frame of fewer than 2 bars returns HOLD with
\* the data-insufficient reason and rsi, ma_short, ma_long and close all
\* absent (None), whatever the only bar holds.
C19_InsufficientHistoryHolds ==
    (SignalGiven /\ Len(live_df) < 2) =>
        /\ signal_info.signal = "HOLD"
        /\ signal_info.reason = <<"data insufficient">>
        /\ signal_info.rsi = None
        /\ signal_info.ma_short = None
        /\ signal_info.ma_long = None
        /\ signal_info.close = None

\* C19 witness: the frame holds one bar, with rsi and both moving averages
\* defined, and the returned dict reports none of its values.
C19_Witness ==
    /\ SignalGiven
    /\ Len(live_df) = 1
    /\ ~UndefinedBar(live_df[1])
    /\ live_df[1].rsi = R(29)
    /\ signal_info.signal = "HOLD"
    /\ signal_info.close = None

(***************************************************************************)
(* Claims on the RSI functions (checked under IndicatorSpec).              *)
(***************************************************************************)

\* no close of bars from..to lies below the close before it: every loss of
\* these bars is zero (bar 1 has no loss)
NoFall(from, to) ==
    \A j \in from..to : j >= 2 => ~RLt(series[j], series[j - 1])

\* the value is a number between 0 and 100
InPercentRange(x) == x # NaN /\ RLe(Zero, x) /\ RLe(x, R(100))

\* C18: the RSI series of both calc_rsi (rolling mean) and calculate_rsi
\* (Wilder smoothing) is undefined on the first `period` bars, undefined
\* on every bar whose average loss is zero (no fall among the bars the
\* average covers), and between 0 and 100 wherever it is defined.
C18_RsiDefinedness ==
    /\ (rsi_out.kind = "out" /\ rsi_out.roll_done) =>
           /\ Len(rsi_out.roll) = Len(series)
           /\ \A k \in 1..Len(series) :
                  /\ k <= period => rsi_out.roll[k] = NaN
                  /\ NoFall(k - period + 1, k) => rsi_out.roll[k] = NaN
                  /\ rsi_out.roll[k] # NaN => InPercentRange(rsi_out.roll[k])
    /\ (rsi_out.kind = "out" /\ rsi_out.wilder_done) =>
           /\ Len(rsi_out.wilder) = Len(series)
           /\ \A k \in 1..Len(series) :
                  /\ k <= period => rsi_out.wilder[k] = NaN
                  /\ NoFall(1, k) => rsi_out.wilder[k] = NaN
                  /\ rsi_out.wilder[k] # NaN => InPercentRange(rsi_out.wilder[k])

\* C18 witness: past the first `period` bars, a bar whose window holds no
\* fall has no rolling RSI while the Wilder RSI, which still weighs an
\* earlier fall, is a number strictly between 0 and 100; and the rolling RSI
\* is such a number on another bar.
C18_Witness ==
    /\ rsi_out.kind = "out"
    /\ rsi_out.roll_done
    /\ rsi_out.wilder_done
    /\ \E k \in (period + 1)..Len(series) :
          /\ rsi_out.roll[k] = NaN
          /\ rsi_out.wilder[k] # NaN
          /\ RLt(Zero, rsi_out.wilder[k])
          /\ RLt(rsi_out.wilder[k], R(100))
    /\ \E k \in 1..Len(series) :
          /\ rsi_out.roll[k] # NaN
          /\ RLt(Zero, rsi_out.roll[k])
          /\ RLt(rsi_out.roll[k], R(100))

(***************************************************************************)
(* Claims on the whole backtest pipeline (checked under PipelineSpec).     *)
(***************************************************************************)

\* the locals run_backtest starts its walk with (lines 89-94)
StartLocals ==
    [cash |-> capital, position |-> Zero, entry_price |-> Zero,
     entry_date |-> NoDate, trades |-> <<>>, equity |-> <<>>]

\* the locals after the loop body has visited the first n rows of frame f
RECURSIVE WalkRows(_, _)
WalkRows(f, n) == IF n = 0 THEN StartLocals ELSE BarStep(WalkRows(f, n - 1), f[n])

\* the frame add_indicators gives when the fetched closes stop after bar i
\* (its i rows, with indicators and flags)
PrefixFrame(i) ==
    AddCrossFlags(SubSeq(Indicators(SubSeq(series, 1, i)), 1, i))

\* the locals of run_backtest after its whole walk over that frame
PrefixLocals(i) ==
    LET walked == DropNa(PrefixFrame(i))
    IN  WalkRows(walked, Len(walked))

\* the walk over all the fetched closes has visited exactly the rows of
\* bars 1..i
VisitedThrough(i) ==
    /\ pc = "loop"
    /\ \A k \in 1..Len(df) : k < row_i <=> df[k].date <= i

\* C20: no look-ahead. For the fetched closes and the closes cut after any
\* bar i (two sequences agreeing on bars up to i), the rsi, ma5, ma20 and
\* the golden / dead flags of bar i are identical, and the driver's cash,
\* position, entry, trades and equity points after the bars up to i are
\* identical.
C20_NoLookAhead ==
    /\ (pc = "loop" /\ row_i = 1) =>
           LET full == AddCrossFlags(raw)
           IN  \A i \in 1..Len(series) : PrefixFrame(i)[i] = full[i]
    /\ \A i \in 1..Len(series) :
           VisitedThrough(i) => PrefixLocals(i) = Locals

\* C20 witness: the walk has entered and left a position on bars that were
\* followed by more bars, and stands before the last bar.
C20_Witness ==
    /\ pc = "loop"
    /\ row_i = Len(df)
    /\ Len(trades) = 1
    /\ trades[1].exit_date < df[row_i].date
    /\ VisitedThrough(Len(series) - 1)
    /\ df[row_i].close # series[Len(series) - 1]

(***************************************************************************)
(* Claims on the loops over the instruments (checked under RunSpec).       *)
(***************************************************************************)

\* C4: whatever retrieval gives for an instrument (failure, empty result,
\* partial result down to a single bar), neither the backtest run nor the
\* live run raises: the instrument is skipped or processed and the run goes
\* on to the remaining instruments.
C4_NoInstrumentAbortsRun == run_pc # "raised"

\* the instruments, as places in TRADING_PAIRS, whose retrieval gave bars
ProducedResult ==
    SelectSeq([k \in 1..Len(TRADING_PAIRS) |-> k],
              LAMBDA k : fetched[TRADING_PAIRS[k]] \notin {"failure", "empty"})

\* C16: in the backtest report the combined initial and final capital are
\* the sums over exactly the instruments that produced a result, the
\* combined return is (sum_final - sum_initial) / sum_initial * 100, and an
\* instrument whose bar sequence was empty is not in the report and adds
\* nothing to either sum.
C16_CombinedTotals ==
    (run_mode = "backtest" /\ run_pc = "done") =>
        LET n        == Len(ProducedResult)
            initials == [j \in 1..n |-> results[ProducedResult[j]].initial]
            finals   == [j \in 1..n |-> results[ProducedResult[j]].final]
        IN  /\ report.markets = [j \in 1..n |-> TRADING_PAIRS[ProducedResult[j]]]
            /\ report.combined_init = RMul(R(n), R(INITIAL_CAPITAL))
            /\ report.combined_init = RSum(initials)
            /\ report.combined_final = RSum(finals)
            /\ n > 0 => report.combined_ret =
                            RMul(RDiv(RSub(RSum(finals), RSum(initials)),
                                      RSum(initials)), R(100))
            /\ n = 0 => report.combined_ret = Zero

\* C16 witness: a report over two instruments, one ending with half and one
\* with twice its capital, while the third instrument gave no bars: the
\* combined return is 25 (it would be 16.67 with the third counted as flat).
C16_Witness ==
    /\ run_mode = "backtest"
    /\ run_pc = "done"
    /\ fetched["KRW-ETH"] = "failure"
    /\ Len(report.markets) = 2
    /\ report.combined_init = R(2000000)
    /\ report.combined_final = R(2500000)
    /\ report.combined_ret = R(25)

\* ---------------------------------------------------------------------------
\* Claims on the performance summary (checked under CapitalSpec)
\* ---------------------------------------------------------------------------

\* the run is over, by a return or by an exception
RunOver == pc \in {"done", "raised"}

\* the running peak of the recorded equity curve is zero at some point
ZeroPeak == \E k \in 1..Len(equity) : Peak(equity, k) = Zero

\* C21: when the running peak of the equity curve is zero, the summary is
\* reported and its max drawdown is a defined value, never NaN.
C21_ZeroPeakMddDefined ==
    (RunOver /\ ZeroPeak) => (result.kind = "result" /\ result.mdd # NaN)

\* ---------------------------------------------------------------------------
\* Claims on the trades of the backtest walk (checked under BacktestSpec)
\* ---------------------------------------------------------------------------

\* the trades closed by an exit signal of the walk
SignalTrades == {t \in 1..Len(trades) : trades[t].reason # ForcedReason}

\* the row of the walked frame on which trade t was closed
ExitRow(t) == CHOOSE r \in 1..Len(df) : df[r].date = trades[t].exit_date

OverboughtTag == <<"RSI overbought">>

DeadCrossTag == <<"dead cross">>

CombinedTag == <<"RSI overbought", " + dead cross">>

\* C22: every trade closed by signal carries a reason that names exactly the
\* exit conditions that held on its exit bar: the overbought tag iff
\* rsi > RSI_OVERBOUGHT without a dead cross, the dead-cross tag iff a dead
\* cross with rsi <= RSI_OVERBOUGHT, the combined tag iff both; the reason is
\* never empty.
C22_ReasonNamesExitConditions ==
    \A t \in SignalTrades :
        LET row      == df[ExitRow(t)]
            over     == RLt(R(RSI_OVERBOUGHT), row.rsi)
            reason   == trades[t].reason
        IN  /\ \E r \in 1..Len(df) : df[r].date = trades[t].exit_date
            /\ row.rsi # NaN
            /\ reason # <<>>
            /\ reason \in {OverboughtTag, DeadCrossTag, CombinedTag}
            /\ (reason = OverboughtTag) <=> (over /\ ~row.dead)
            /\ (reason = DeadCrossTag) <=> (row.dead /\ ~over)
            /\ (reason = CombinedTag) <=> (over /\ row.dead)

\* a trade was closed on a bar where the rsi exit and the dead cross both held
C22_Witness ==
    \E t \in SignalTrades :
        /\ trades[t].reason = CombinedTag
        /\ df[ExitRow(t)].dead
        /\ RLt(R(RSI_OVERBOUGHT), df[ExitRow(t)].rsi)

\* a loop iteration over the row at row_i is taken
BarTaken == pc = "loop" /\ row_i <= Len(df) /\ row_i' = row_i + 1

\* the iteration entered a position: the entry date is the row's date
EntryOnBar == entry_date' = df[row_i].date

\* the iteration closed a position: a trade was recorded
ExitOnBar == Len(trades') > Len(trades)

\* C23: with a positive capital and positive closes, after every bar either
\* position = 0 or cash = 0 and never both positive, no bar both enters and
\* exits, and the equity point recorded on an entry bar equals the cash held
\* before the entry (entry and exit are free of fees).
C23_AllInAllOut ==
    [][BarTaken =>
          /\ RLe(Zero, position') /\ RLe(Zero, cash')
          /\ position' = Zero \/ cash' = Zero
          /\ ~(RLt(Zero, position') /\ RLt(Zero, cash'))
          /\ ~(EntryOnBar /\ ExitOnBar)
          /\ EntryOnBar => /\ Len(equity') = Len(equity) + 1
                           /\ equity'[Len(equity')] = cash
                           /\ RLt(Zero, position')]_vars

\* a position was closed on one bar and the proceeds, other than the capital,
\* were put into a new position on the next bar
C23_Witness ==
    /\ pc = "loop"
    /\ row_i = 4
    /\ Len(trades) = 1
    /\ trades[1].exit_date = df[2].date
    /\ entry_date = df[3].date
    /\ RLt(Zero, position)
    /\ cash = Zero
    /\ equity[3] = equity[2]
    /\ equity[2] # capital

\* the rows among the first n of the walked frame on which the walk entered a
\* position: the entry date after the row is the row's date
EntryBars(n) == {k \in 1..n : WalkRows(df, k).entry_date = df[k].date}

\* the number of rows the walk has visited
RowsWalked == IF pc = "loop" THEN row_i - 1 ELSE Len(df)

\* a position is open and not yet recorded as a trade
OpenUnrecorded == pc = "loop" /\ RLt(Zero, position)

\* C24: the trade list is chronologically ordered and non-overlapping: there
\* are as many trades as entries made (an entry still open during the walk
\* is the one not yet recorded), each signal-closed trade has its exit bar
\* strictly after its entry bar, each trade's exit bar is at or before the
\* next trade's entry bar, and only the forced-liquidation trade, always the
\* last one, may have its entry bar equal to its exit bar.
C24_TradesOrdered ==
    /\ Len(trades) + (IF OpenUnrecorded THEN 1 ELSE 0)
           = Cardinality(EntryBars(RowsWalked))
    /\ (pc = "done" /\ result.kind = "result") =>
           Len(trades) = Cardinality(EntryBars(Len(df)))
    /\ \A t \in 1..Len(trades) :
           /\ trades[t].entry_date <= trades[t].exit_date
           /\ trades[t].reason # ForcedReason =>
                  trades[t].entry_date < trades[t].exit_date
           /\ trades[t].reason = ForcedReason => (t = Len(trades) /\ pc = "done")
           /\ t < Len(trades) => trades[t].exit_date <= trades[t + 1].entry_date
    /\ (OpenUnrecorded /\ Len(trades) > 0) =>
           trades[Len(trades)].exit_date <= entry_date

\* a run with a signal-closed trade followed by a position entered on the
\* last bar and liquidated there
C24_Witness ==
    /\ pc = "done"
    /\ result.kind = "result"
    /\ Len(trades) = 2
    /\ trades[1].reason # ForcedReason
    /\ trades[1].exit_date <= trades[2].entry_date
    /\ trades[2].reason = ForcedReason
    /\ trades[2].entry_date = trades[2].exit_date
    /\ Cardinality(EntryBars(Len(df))) = 2

====
